---- MODULE Spec2Model ----
(***************************************************************************)
(* Flight-safety core of the weather assistant: FlightAnalyzer             *)
(* (src/flight_analyzer.py), WeatherAlerts (src/Weather_alerts.py) and     *)
(* the thresholds of Config (src/config.py), and the command loop of       *)
(* WeatherAssistant (src/main.py) that drives them.                        *)
(*                                                                         *)
(* Units.  Every numeric field of a reading, every threshold and every     *)
(* sub-score is a Python float counted in TENTHS: Float(155) is 15.5.      *)
(* The readings of the model are multiples of 0.5, so each of them is an   *)
(* exact binary double and the comparisons, differences and small integer  *)
(* multiples computed on them are exact.  The weighted sum of              *)
(* calculate_flight_score is not exact (0.3, 0.15, 0.2 and 0.1 are not     *)
(* binary fractions); it is modelled bit for bit, see "Binary doubles".    *)
(* So is the sum rain_1h + snow_1h of _analyze_precipitation, whose        *)
(* inputs may be any tenths: there Float(t) is the double nearest t/10.    *)
(***************************************************************************)
EXTENDS Integers, Sequences, FiniteSets, TLC

VARIABLES
    weather_data,   \* the reading handed to the engine, or None
    sum_impl,       \* which summation the interpreter's built-in sum() uses
    score_ret,      \* what calculate_flight_score returned or raised
    alerts_ret,     \* what check_weather_alerts returned or raised
    active_alerts,  \* WeatherAlerts.active_alerts
    now,            \* the wall clock read by WeatherAlert.__init__
    rec_args,       \* (score, safety_level) given to generate_flight_recommendations
    recs_ret,       \* what generate_flight_recommendations returned or raised
    log,            \* the calls completed so far, in order of completion
    pc,             \* where the command loop stands
    callers,        \* the frames of the callers sharing the engine objects
    history         \* WeatherAssistant.history

vars == <<weather_data, sum_impl, score_ret, alerts_ret, active_alerts, now,
          rec_args, recs_ret, log, pc, callers, history>>

(***************************************************************************)
(* Python floats of a reading: finite (in tenths), nan, +inf, -inf.        *)
(***************************************************************************)
Float(t) == [k |-> "fin", v |-> t]
NaN == [k |-> "nan", v |-> 0]
PosInf == [k |-> "inf", v |-> 1]
NegInf == [k |-> "inf", v |-> -1]

IsFinite(x) == x.k = "fin"

\* position on the extended real line (not defined for nan)
Ord(x) == IF x.k = "inf" THEN x.v * 100000000 ELSE x.v

\* a < b, a <= b, a == b: every comparison with nan is False
Lt(a, b) == a.k # "nan" /\ b.k # "nan" /\ Ord(a) < Ord(b)
Le(a, b) == a.k # "nan" /\ b.k # "nan" /\ Ord(a) <= Ord(b)
Eq(a, b) == a.k # "nan" /\ b.k # "nan" /\ Ord(a) = Ord(b)

Neg(a) == IF a.k = "nan" THEN NaN ELSE [k |-> a.k, v |-> -a.v]

\* a + b
Add(a, b) ==
    IF a.k = "nan" \/ b.k = "nan" THEN NaN
    ELSE IF a.k = "inf" THEN (IF b.k = "inf" /\ b.v # a.v THEN NaN ELSE a)
    ELSE IF b.k = "inf" THEN b
    ELSE Float(a.v + b.v)

\* a - b
Sub(a, b) == Add(a, Neg(b))

\* a * c for a positive integer literal c
MulInt(a, c) == IF a.k = "fin" THEN Float(a.v * c) ELSE a

\* max(a, b): the first argument is kept unless the second is greater
PyMax(a, b) == IF Lt(a, b) THEN b ELSE a

\* int(x) of a finite float: truncation toward zero, an integer
PyInt(x) == IF x.v >= 0 THEN x.v \div 10 ELSE -((-x.v) \div 10)

\* an int used as a float
OfInt(i) == Float(10 * i)

(***************************************************************************)
(* Binary doubles.  The products sub_score * weight and their sum are      *)
(* IEEE-754 doubles rounded to nearest, ties to even.  Such a double x     *)
(* lies within a few ulps of a decimal n/1000; with ulp(x) = 2^-m it is    *)
(*        x = (n * 2^m + d) / (1000 * 2^m)                                 *)
(* for a small integer d with n * 2^m + d divisible by 1000.  The record   *)
(* [n, m, d] stores x exactly; rounding an exact value to a double is the  *)
(* choice of the admissible d nearest to the exact deviation.              *)
(***************************************************************************)
Milli == 1000

Pow2[e \in 0..24] == IF e = 0 THEN 1 ELSE 2 * Pow2[e - 1]

\* 2^e modulo 2000
Pow2Mod[e \in 0..80] == IF e = 0 THEN 1 ELSE (2 * Pow2Mod[e - 1]) % (2 * Milli)

Sgn(i) == IF i < 0 THEN -1 ELSE IF i > 0 THEN 1 ELSE 0

FPZero == [n |-> 0, m |-> 0, d |-> 0]

\* j with 2^j <= n/1000 + e < 2^(j+1), for n > 0 and an e of sign sgn far
\* smaller than 1/1000
Binade(n, sgn) ==
    LET j == CHOOSE i \in -6..7 :
                 IF i >= 0
                 THEN Milli * Pow2[i] <= n /\ n < Milli * Pow2[i + 1]
                 ELSE Milli <= n * Pow2[-i] /\ n * Pow2[-i] < 2 * Milli
        onPower == IF j >= 0 THEN n = Milli * Pow2[j] ELSE n * Pow2[-j] = Milli
    IN  IF sgn < 0 /\ onPower THEN j - 1 ELSE j

\* round to nearest, ties to even: the d for which (n * 2^m + d) / 1000 is the
\* integer nearest to (n * 2^m + p/q) / 1000
RoundDev(n, m, p, q) ==
    LET r == ((n % (2 * Milli)) * Pow2Mod[m]) % (2 * Milli)
        base == -(r % Milli)
        lo == base + ((p - q * base) \div (q * Milli)) * Milli
        hi == lo + Milli
        even(d) == (r + d + 20 * Milli) % (2 * Milli) = 0
    IN  IF p - q * lo < q * hi - p THEN lo
        ELSE IF p - q * lo > q * hi - p THEN hi
        ELSE IF even(lo) THEN lo ELSE hi

\* the double a decimal literal n/1000 denotes
Literal(n) ==
    LET m == 52 - Binade(n, 0)
    IN  [n |-> n, m |-> m, d |-> RoundDev(n, m, 0, 1)]

\* s * w, for a finite sub-score of s tenths (s >= 0) and a double w
MulFloat(s, w) ==
    IF s = 0 THEN FPZero
    ELSE LET n == (s * w.n) \div 10
             m == 52 - Binade(n, Sgn(w.d))
             p == IF m >= w.m THEN s * w.d * Pow2[m - w.m] ELSE s * w.d
             q == IF m >= w.m THEN 10 ELSE 10 * Pow2[w.m - m]
         IN  [n |-> n, m |-> m, d |-> RoundDev(n, m, p, q)]

\* the exact sum of the doubles of xs (none of them zero), rounded once
RoundSum(xs) ==
    LET top == CHOOSE e \in {xs[i].m : i \in DOMAIN xs} :
                   \A i \in DOMAIN xs : xs[i].m <= e
        SumN[i \in 0..Len(xs)] == IF i = 0 THEN 0 ELSE SumN[i - 1] + xs[i].n
        SumD[i \in 0..Len(xs)] ==
            IF i = 0 THEN 0 ELSE SumD[i - 1] + xs[i].d * Pow2[top - xs[i].m]
        n == SumN[Len(xs)]
        dev == SumD[Len(xs)]
        m == 52 - Binade(n, Sgn(dev))
        p == IF m >= top THEN dev * Pow2[m - top] ELSE dev
        q == IF m >= top THEN 1 ELSE Pow2[top - m]
    IN  [n |-> n, m |-> m, d |-> RoundDev(n, m, p, q)]

\* x + y
AddFloat(x, y) ==
    IF x.n = 0 THEN y ELSE IF y.n = 0 THEN x ELSE RoundSum(<<x, y>>)

NonZero(xs) == SelectSeq(xs, LAMBDA x : x.n # 0)

\* sum(xs) as CPython before 3.12 computes it: one rounded addition per element
SumSequential(xs) ==
    LET Acc[i \in 0..Len(xs)] ==
            IF i = 0 THEN FPZero ELSE AddFloat(Acc[i - 1], xs[i])
    IN  Acc[Len(xs)]

\* sum(xs) as CPython from 3.12 computes it (compensated summation): on these
\* operands the correctly rounded exact sum
SumCompensated(xs) ==
    IF NonZero(xs) = <<>> THEN FPZero ELSE RoundSum(NonZero(xs))

\* int(x) of a double x >= 0
IntOfDouble(x) ==
    IF x.d < 0 /\ x.n % Milli = 0 THEN (x.n \div Milli) - 1 ELSE x.n \div Milli

\* x >= c for an integer c
DoubleGe(x, c) == x.n > c * Milli \/ (x.n = c * Milli /\ x.d >= 0)

(***************************************************************************)
(* Config (src/config.py), in tenths.                                      *)
(***************************************************************************)
WIND_SPEED_LIMITS ==
    [safe |-> OfInt(15), caution |-> OfInt(25), dangerous |-> OfInt(35)]

VISIBILITY_LIMITS ==
    [safe |-> OfInt(10), caution |-> OfInt(5), dangerous |-> OfInt(1)]

TEMPERATURE_LIMITS == [min_safe |-> OfInt(-10), max_safe |-> OfInt(40)]

\* 7.6 is the double just below 7.6; no multiple of 0.5 lies between the two
PRECIPITATION_LIMITS ==
    [light |-> Float(25), moderate |-> Float(76), heavy |-> OfInt(50)]

(***************************************************************************)
(* FlightSafety and the values a call leaves behind.                       *)
(***************************************************************************)
FlightSafety == {"SAFE", "CAUTION", "DANGEROUS", "NO_FLY"}

None == [absent |-> TRUE]

NotCalled == [kind |-> "none"]
Return(v) == [kind |-> "return", value |-> v]
Raise(e) == [kind |-> "raise", exc |-> e]

(***************************************************************************)
(* FlightAnalyzer: the sub-scores.                                         *)
(***************************************************************************)
\* _analyze_wind with the dangerous bracket starting from 70 like the caution
\* bracket
_analyze_wind_dangerous_from_70(wind_data) ==
    LET wind_speed == wind_data.speed
        wind_gust == wind_data.gust
        effective_wind == PyMax(wind_speed, wind_gust)
    IN  IF Le(effective_wind, WIND_SPEED_LIMITS.safe) THEN OfInt(100)
        ELSE IF Le(effective_wind, WIND_SPEED_LIMITS.caution)
        THEN OfInt(70 - PyInt(MulInt(Sub(effective_wind, WIND_SPEED_LIMITS.safe), 3)))
        ELSE IF Le(effective_wind, WIND_SPEED_LIMITS.dangerous)
        THEN OfInt(70 - PyInt(MulInt(Sub(effective_wind, WIND_SPEED_LIMITS.caution), 2)))
        ELSE OfInt(0)

\* _analyze_wind with the penalty of the caution bracket added
_analyze_wind_penalty_added(wind_data) ==
    LET wind_speed == wind_data.speed
        wind_gust == wind_data.gust
        effective_wind == PyMax(wind_speed, wind_gust)
    IN  IF Le(effective_wind, WIND_SPEED_LIMITS.safe) THEN OfInt(100)
        ELSE IF Le(effective_wind, WIND_SPEED_LIMITS.caution)
        THEN OfInt(70 + PyInt(MulInt(Sub(effective_wind, WIND_SPEED_LIMITS.safe), 3)))
        ELSE IF Le(effective_wind, WIND_SPEED_LIMITS.dangerous)
        THEN OfInt(40 - PyInt(MulInt(Sub(effective_wind, WIND_SPEED_LIMITS.caution), 2)))
        ELSE OfInt(0)

\* _analyze_wind reading the wind speed and forgetting the gust
_analyze_wind_speed_only(wind_data) ==
    LET effective_wind == wind_data.speed
    IN  IF Le(effective_wind, WIND_SPEED_LIMITS.safe) THEN OfInt(100)
        ELSE IF Le(effective_wind, WIND_SPEED_LIMITS.caution)
        THEN OfInt(70 - PyInt(MulInt(Sub(effective_wind, WIND_SPEED_LIMITS.safe), 3)))
        ELSE IF Le(effective_wind, WIND_SPEED_LIMITS.dangerous)
        THEN OfInt(40 - PyInt(MulInt(Sub(effective_wind, WIND_SPEED_LIMITS.caution), 2)))
        ELSE OfInt(0)

_analyze_wind(wind_data) ==
    LET wind_speed == wind_data.speed
        wind_gust == wind_data.gust
        effective_wind == PyMax(wind_speed, wind_gust)
    IN  IF Le(effective_wind, WIND_SPEED_LIMITS.safe) THEN OfInt(100)
        ELSE IF Le(effective_wind, WIND_SPEED_LIMITS.caution)
        THEN OfInt(70 - PyInt(MulInt(Sub(effective_wind, WIND_SPEED_LIMITS.safe), 3)))
        ELSE IF Le(effective_wind, WIND_SPEED_LIMITS.dangerous)
        THEN OfInt(40 - PyInt(MulInt(Sub(effective_wind, WIND_SPEED_LIMITS.caution), 2)))
        ELSE OfInt(0)

_analyze_visibility(visibility_km) ==
    IF Le(VISIBILITY_LIMITS.safe, visibility_km) THEN OfInt(100)
    ELSE IF Le(VISIBILITY_LIMITS.caution, visibility_km) THEN OfInt(70)
    ELSE IF Le(VISIBILITY_LIMITS.dangerous, visibility_km) THEN OfInt(30)
    ELSE OfInt(0)

\* _analyze_temperature with the cold penalty added instead of subtracted
_analyze_temperature_penalty_added(temperature) ==
    IF Le(TEMPERATURE_LIMITS.min_safe, temperature)
       /\ Le(temperature, TEMPERATURE_LIMITS.max_safe)
    THEN OfInt(100)
    ELSE IF Lt(temperature, TEMPERATURE_LIMITS.min_safe)
    THEN LET diff == Sub(TEMPERATURE_LIMITS.min_safe, temperature)
         IN  PyMax(OfInt(0), Add(OfInt(100), MulInt(diff, 5)))
    ELSE LET diff == Sub(temperature, TEMPERATURE_LIMITS.max_safe)
         IN  PyMax(OfInt(0), Sub(OfInt(100), MulInt(diff, 3)))

_analyze_temperature(temperature) ==
    IF Le(TEMPERATURE_LIMITS.min_safe, temperature)
       /\ Le(temperature, TEMPERATURE_LIMITS.max_safe)
    THEN OfInt(100)
    ELSE IF Lt(temperature, TEMPERATURE_LIMITS.min_safe)
    THEN LET diff == Sub(TEMPERATURE_LIMITS.min_safe, temperature)
         IN  PyMax(OfInt(0), Sub(OfInt(100), MulInt(diff, 5)))
    ELSE LET diff == Sub(temperature, TEMPERATURE_LIMITS.max_safe)
         IN  PyMax(OfInt(0), Sub(OfInt(100), MulInt(diff, 3)))

\* the double of a finite float of t >= 0 tenths
DoubleOf(x) == IF x.v = 0 THEN FPZero ELSE Literal(100 * x.v)

\* x <= y for two doubles
DoubleLe(x, y) ==
    IF x.n # y.n THEN x.n < y.n
    ELSE IF x.m >= y.m THEN x.d <= y.d * Pow2[x.m - y.m]
    ELSE x.d * Pow2[y.m - x.m] <= y.d

\* rain_1h + snow_1h is a rounded addition of two doubles: 0.2 + 7.4 is
\* 7.6000000000000005, above the double 7.6.  Non-negative finite amounts
\* are added bit for bit; the other operands of the model are multiples of
\* 0.5, whose sum is exact.
_analyze_precipitation(precip_data) ==
    LET rain == precip_data.rain_1h
        snow == precip_data.snow_1h
    IN  IF IsFinite(rain) /\ IsFinite(snow) /\ rain.v >= 0 /\ snow.v >= 0
        THEN LET total_precip == AddFloat(DoubleOf(rain), DoubleOf(snow))
             IN  IF total_precip = FPZero THEN OfInt(100)
                 ELSE IF DoubleLe(total_precip, DoubleOf(PRECIPITATION_LIMITS.light))
                 THEN OfInt(80)
                 ELSE IF DoubleLe(total_precip, DoubleOf(PRECIPITATION_LIMITS.moderate))
                 THEN OfInt(50)
                 ELSE IF DoubleLe(total_precip, DoubleOf(PRECIPITATION_LIMITS.heavy))
                 THEN OfInt(20)
                 ELSE OfInt(0)
        ELSE LET total_precip == Add(rain, snow)
             IN  IF Eq(total_precip, OfInt(0)) THEN OfInt(100)
                 ELSE IF Le(total_precip, PRECIPITATION_LIMITS.light) THEN OfInt(80)
                 ELSE IF Le(total_precip, PRECIPITATION_LIMITS.moderate) THEN OfInt(50)
                 ELSE IF Le(total_precip, PRECIPITATION_LIMITS.heavy) THEN OfInt(20)
                 ELSE OfInt(0)

_analyze_clouds(cloudiness) ==
    IF Le(cloudiness, OfInt(25)) THEN OfInt(100)
    ELSE IF Le(cloudiness, OfInt(50)) THEN OfInt(85)
    ELSE IF Le(cloudiness, OfInt(75)) THEN OfInt(70)
    ELSE OfInt(50)

\* _determine_safety_level with strict comparisons
_determine_safety_level_strict(score) ==
    IF DoubleGe(score, 80) /\ score # Literal(80000) THEN "SAFE"
    ELSE IF DoubleGe(score, 60) /\ score # Literal(60000) THEN "CAUTION"
    ELSE IF DoubleGe(score, 30) /\ score # Literal(30000) THEN "DANGEROUS"
    ELSE "NO_FLY"

\* score is the double total_score
_determine_safety_level(score) ==
    IF DoubleGe(score, 80) THEN "SAFE"
    ELSE IF DoubleGe(score, 60) THEN "CAUTION"
    ELSE IF DoubleGe(score, 30) THEN "DANGEROUS"
    ELSE "NO_FLY"

(***************************************************************************)
(* FlightAnalyzer.calculate_flight_score                                   *)
(***************************************************************************)
WeightWind == Literal(300)
WeightVisibility == Literal(250)
WeightTemperature == Literal(150)
WeightPrecipitation == Literal(200)
WeightClouds == Literal(100)

\* the five sub-scores, in the order they are appended
SubScores(wd) ==
    <<_analyze_wind(wd.wind),
      _analyze_visibility(wd.visibility),
      _analyze_temperature(wd.temperature.current),
      _analyze_precipitation(wd.precipitation),
      _analyze_clouds(wd.cloudiness)>>

\* the list scores: each sub-score times its weight
WeightedScores(sub) ==
    <<MulFloat(sub[1].v, WeightWind),
      MulFloat(sub[2].v, WeightVisibility),
      MulFloat(sub[3].v, WeightTemperature),
      MulFloat(sub[4].v, WeightPrecipitation),
      MulFloat(sub[5].v, WeightClouds)>>

\* sum(scores)
PySum(impl, scores) ==
    IF impl = "sequential" THEN SumSequential(scores) ELSE SumCompensated(scores)

\* return int(total_score), safety_level
ScoreAndLevel(total_score) ==
    <<IntOfDouble(total_score), _determine_safety_level(total_score)>>

\* calculate_flight_score without the guard of its first two lines
calculate_flight_score_unguarded(wd, impl) ==
    IF wd = None THEN Raise("TypeError")
    ELSE Return(ScoreAndLevel(PySum(impl, WeightedScores(SubScores(wd)))))

calculate_flight_score(wd, impl) ==
    IF wd = None THEN Return(<<0, "NO_FLY">>)
    ELSE LET sub == SubScores(wd)
         IN  IF \E i \in 1..5 : sub[i].k = "nan" THEN Raise("ValueError")
             ELSE IF \E i \in 1..5 : sub[i].k = "inf" THEN Raise("OverflowError")
             ELSE Return(ScoreAndLevel(PySum(impl, WeightedScores(sub))))

(***************************************************************************)
(* Readings.                                                               *)
(***************************************************************************)
Reading(speed, gust, vis, temp, rain, snow, cloud, pressure, main) ==
    [wind |-> [speed |-> speed, gust |-> gust],
     visibility |-> vis,
     temperature |-> [current |-> temp],
     precipitation |-> [rain_1h |-> rain, snow_1h |-> snow],
     cloudiness |-> cloud,
     pressure |-> pressure,
     weather |-> [main |-> main]]

Clear == <<"C", "l", "e", "a", "r">>

SumImpls == {"sequential", "compensated"}

(***************************************************************************)
(* Scoring: a reading (or None) is scored once.                            *)
(***************************************************************************)
\* the readings scored: every breakpoint of the sub-scores is crossed, the
\* aggregate reaches both sides of 80, 60 and 30, and the numeric fields
\* include a negative visibility, an infinite gust and a nan temperature
InitScore ==
    /\ weather_data \in
      { Reading(speed, gust, vis, temp, rain, snow, cloud, OfInt(1013), Clear) :
          speed \in {OfInt(10), OfInt(16), Float(195), Float(295), OfInt(36)},
          gust \in {OfInt(0), OfInt(22), PosInf},
          vis \in {OfInt(-1), Float(5), OfInt(3), OfInt(6), OfInt(12)},
          temp \in {OfInt(-28), Float(-105), OfInt(22), OfInt(48), OfInt(68), NaN},
          rain \in {OfInt(0), OfInt(2), OfInt(10)},
          snow \in {OfInt(0), Float(5), OfInt(60)},
          cloud \in {OfInt(10), OfInt(30), OfInt(60), OfInt(90)} }
        \cup {None}
    /\ sum_impl \in SumImpls
    /\ score_ret = NotCalled
    /\ alerts_ret = NotCalled
    /\ active_alerts = <<>>
    /\ now = 0
    /\ rec_args = <<>>
    /\ recs_ret = NotCalled
    /\ log = <<>>
    /\ pc = "idle"
    /\ history = <<>>
    /\ callers = <<>>

CalculateFlightScore ==
    /\ score_ret = NotCalled
    /\ score_ret' = calculate_flight_score(weather_data, sum_impl)
    /\ UNCHANGED <<weather_data, sum_impl, alerts_ret, active_alerts, now,
                   rec_args, recs_ret, log, pc, callers, history>>

NextScore == CalculateFlightScore

SpecScore == InitScore /\ [][NextScore]_vars

(***************************************************************************)
(* Strings.  A str is a sequence of one-character strings; the weather     *)
(* labels are ASCII.                                                       *)
(***************************************************************************)
UpperLetters ==
    <<"A", "B", "C", "D", "E", "F", "G", "H", "I", "J", "K", "L", "M",
      "N", "O", "P", "Q", "R", "S", "T", "U", "V", "W", "X", "Y", "Z">>
LowerLetters ==
    <<"a", "b", "c", "d", "e", "f", "g", "h", "i", "j", "k", "l", "m",
      "n", "o", "p", "q", "r", "s", "t", "u", "v", "w", "x", "y", "z">>

\* str.lower(): every upper-case letter is replaced by its lower-case letter
PyLower(str) ==
    [i \in DOMAIN str |->
        IF \E j \in DOMAIN UpperLetters : UpperLetters[j] = str[i]
        THEN LowerLetters[CHOOSE j \in DOMAIN UpperLetters : UpperLetters[j] = str[i]]
        ELSE str[i]]

\* needle in hay
PyIn(needle, hay) ==
    \E i \in 0..(Len(hay) - Len(needle)) :
        SubSeq(hay, i + 1, i + Len(needle)) = needle

thunderstorm == <<"t", "h", "u", "n", "d", "e", "r", "s", "t", "o", "r", "m">>
tornado == <<"t", "o", "r", "n", "a", "d", "o">>

\* f"{x:.1f}" of a float: for a multiple of 0.5 the digits are exact
Format1f(x) ==
    IF x.k = "nan" THEN [text |-> "nan", int |-> 0, frac |-> 0]
    ELSE IF x.k = "inf"
    THEN [text |-> IF x.v > 0 THEN "inf" ELSE "-inf", int |-> 0, frac |-> 0]
    ELSE [text |-> IF x.v < 0 THEN "-" ELSE "",
          int |-> (IF x.v < 0 THEN -x.v ELSE x.v) \div 10,
          frac |-> (IF x.v < 0 THEN -x.v ELSE x.v) % 10]

\* f"{x}" of a float, its repr: for a multiple of 0.5 the same digits
FormatRepr(x) == Format1f(x)

(***************************************************************************)
(* WeatherAlert and WeatherAlerts.check_weather_alerts.  The timestamp of  *)
(* an alert is the clock at the call (no timestamp argument is passed).    *)
(***************************************************************************)
AlertLevel == {"INFO", "WARNING", "CRITICAL", "EMERGENCY"}

WeatherAlert(level, title, message, clock) ==
    [level |-> level, title |-> title, message |-> message, timestamp |-> clock]

\* the wind rule taking the higher of speed and gust, as _analyze_wind does
WindAlerts_with_gust(wd, clock) ==
    LET wind_speed == PyMax(wd.wind.speed, wd.wind.gust)
    IN  IF Lt(OfInt(40), wind_speed)
        THEN <<WeatherAlert("EMERGENCY", "Extreme Wind Warning",
                 <<"Wind speed ", Format1f(wind_speed),
                   " km/h exceeds safe limits. DO NOT FLY.">>, clock)>>
        ELSE IF Lt(OfInt(30), wind_speed)
        THEN <<WeatherAlert("CRITICAL", "High Wind Warning",
                 <<"Wind speed ", Format1f(wind_speed),
                   " km/h. Flight operations not recommended.">>, clock)>>
        ELSE IF Lt(OfInt(20), wind_speed)
        THEN <<WeatherAlert("WARNING", "Wind Advisory",
                 <<"Wind speed ", Format1f(wind_speed),
                   " km/h. Exercise extreme caution.">>, clock)>>
        ELSE <<>>

WindAlerts(wd, clock) ==
    LET wind_speed == wd.wind.speed
    IN  IF Lt(OfInt(40), wind_speed)
        THEN <<WeatherAlert("EMERGENCY", "Extreme Wind Warning",
                 <<"Wind speed ", Format1f(wind_speed),
                   " km/h exceeds safe limits. DO NOT FLY.">>, clock)>>
        ELSE IF Lt(OfInt(30), wind_speed)
        THEN <<WeatherAlert("CRITICAL", "High Wind Warning",
                 <<"Wind speed ", Format1f(wind_speed),
                   " km/h. Flight operations not recommended.">>, clock)>>
        ELSE IF Lt(OfInt(20), wind_speed)
        THEN <<WeatherAlert("WARNING", "Wind Advisory",
                 <<"Wind speed ", Format1f(wind_speed),
                   " km/h. Exercise extreme caution.">>, clock)>>
        ELSE <<>>

\* the visibility rule with <= in place of <
VisibilityAlerts_inclusive(wd, clock) ==
    LET visibility == wd.visibility
    IN  IF Le(visibility, OfInt(1))
        THEN <<WeatherAlert("CRITICAL", "Low Visibility Warning",
                 <<"Visibility ", Format1f(visibility),
                   " km. Visual flight rules not recommended.">>, clock)>>
        ELSE IF Le(visibility, OfInt(3))
        THEN <<WeatherAlert("WARNING", "Reduced Visibility",
                 <<"Visibility ", Format1f(visibility),
                   " km. Maintain visual observers.">>, clock)>>
        ELSE <<>>

VisibilityAlerts(wd, clock) ==
    LET visibility == wd.visibility
    IN  IF Lt(visibility, OfInt(1))
        THEN <<WeatherAlert("CRITICAL", "Low Visibility Warning",
                 <<"Visibility ", Format1f(visibility),
                   " km. Visual flight rules not recommended.">>, clock)>>
        ELSE IF Lt(visibility, OfInt(3))
        THEN <<WeatherAlert("WARNING", "Reduced Visibility",
                 <<"Visibility ", Format1f(visibility),
                   " km. Maintain visual observers.">>, clock)>>
        ELSE <<>>

\* the degree sign of the two messages is written "deg"
TemperatureAlerts(wd, clock) ==
    LET temp == wd.temperature.current
    IN  IF Lt(temp, OfInt(-15))
        THEN <<WeatherAlert("CRITICAL", "Extreme Cold Warning",
                 <<"Temperature ", Format1f(temp),
                   "degC. Battery and equipment failure risk.">>, clock)>>
        ELSE IF Lt(OfInt(45), temp)
        THEN <<WeatherAlert("CRITICAL", "Extreme Heat Warning",
                 <<"Temperature ", Format1f(temp),
                   "degC. Overheating risk for electronics.">>, clock)>>
        ELSE <<>>

\* the precipitation rule testing the sum rain + snow, as the score does
PrecipitationAlerts_on_sum(wd, clock) ==
    LET total == Add(wd.precipitation.rain_1h, wd.precipitation.snow_1h)
    IN  IF Lt(OfInt(10), total)
        THEN <<WeatherAlert("CRITICAL", "Heavy Precipitation Warning",
                 <<"Heavy rain/snow detected. Equipment damage risk.">>, clock)>>
        ELSE IF Lt(Float(25), total)
        THEN <<WeatherAlert("WARNING", "Precipitation Advisory",
                 <<"Moderate precipitation. Protect equipment from moisture.">>,
                 clock)>>
        ELSE <<>>

PrecipitationAlerts(wd, clock) ==
    LET rain == wd.precipitation.rain_1h
        snow == wd.precipitation.snow_1h
    IN  IF Lt(OfInt(10), rain) \/ Lt(OfInt(10), snow)
        THEN <<WeatherAlert("CRITICAL", "Heavy Precipitation Warning",
                 <<"Heavy rain/snow detected. Equipment damage risk.">>, clock)>>
        ELSE IF Lt(Float(25), rain) \/ Lt(Float(25), snow)
        THEN <<WeatherAlert("WARNING", "Precipitation Advisory",
                 <<"Moderate precipitation. Protect equipment from moisture.">>,
                 clock)>>
        ELSE <<>>

PressureAlerts(wd, clock) ==
    LET pressure == wd.pressure
    IN  IF Lt(pressure, OfInt(980))
        THEN <<WeatherAlert("WARNING", "Low Pressure System",
                 <<"Low barometric pressure ", FormatRepr(pressure),
                   " hPa. Storm system possible.">>, clock)>>
        ELSE IF Lt(OfInt(1030), pressure)
        THEN <<WeatherAlert("INFO", "High Pressure System",
                 <<"High barometric pressure ", FormatRepr(pressure),
                   " hPa. Stable conditions expected.">>, clock)>>
        ELSE <<>>

\* the weather-condition rule without .lower()
ConditionAlerts_case_sensitive(wd, clock) ==
    LET weather_main == wd.weather.main
    IN  IF PyIn(thunderstorm, weather_main)
        THEN <<WeatherAlert("EMERGENCY", "Thunderstorm Warning",
                 <<"Thunderstorm conditions detected. IMMEDIATE LANDING REQUIRED.">>,
                 clock)>>
        ELSE IF PyIn(tornado, weather_main)
        THEN <<WeatherAlert("EMERGENCY", "Tornado Warning",
                 <<"Tornado activity detected. SEEK IMMEDIATE SHELTER.">>, clock)>>
        ELSE <<>>

ConditionAlerts(wd, clock) ==
    LET weather_main == PyLower(wd.weather.main)
    IN  IF PyIn(thunderstorm, weather_main)
        THEN <<WeatherAlert("EMERGENCY", "Thunderstorm Warning",
                 <<"Thunderstorm conditions detected. IMMEDIATE LANDING REQUIRED.">>,
                 clock)>>
        ELSE IF PyIn(tornado, weather_main)
        THEN <<WeatherAlert("EMERGENCY", "Tornado Warning",
                 <<"Tornado activity detected. SEEK IMMEDIATE SHELTER.">>, clock)>>
        ELSE <<>>

\* the list alerts sorted by falling severity before it is returned
AlertList_by_severity(wd, clock) ==
    LET alerts == WindAlerts(wd, clock) \o VisibilityAlerts(wd, clock)
                    \o TemperatureAlerts(wd, clock) \o PrecipitationAlerts(wd, clock)
                    \o PressureAlerts(wd, clock) \o ConditionAlerts(wd, clock)
        Of(level) == SelectSeq(alerts, LAMBDA x : x.level = level)
    IN  Of("EMERGENCY") \o Of("CRITICAL") \o Of("WARNING") \o Of("INFO")

\* the list alerts at the end of the call
AlertList(wd, clock) ==
    WindAlerts(wd, clock) \o VisibilityAlerts(wd, clock)
      \o TemperatureAlerts(wd, clock) \o PrecipitationAlerts(wd, clock)
      \o PressureAlerts(wd, clock) \o ConditionAlerts(wd, clock)

\* the outcome of check_weather_alerts(wd) on an instance whose active_alerts
\* is active: what the call returns or raises, and active_alerts after it.
\* weather_data['wind'] of None raises TypeError before anything is assigned.
check_weather_alerts(wd, active, clock) ==
    IF wd = None
    THEN [ret |-> Raise("TypeError"), active_alerts |-> active]
    ELSE [ret |-> Return(AlertList(wd, clock)),
          active_alerts |-> AlertList(wd, clock)]

(***************************************************************************)
(* Alert evaluation: a reading (or None) is evaluated once by a fresh      *)
(* WeatherAlerts instance.                                                 *)
(***************************************************************************)
Str_Thunderstorm ==
    <<"T", "h", "u", "n", "d", "e", "r", "s", "t", "o", "r", "m">>
Str_THUNDERSTORMS ==
    <<"T", "H", "U", "N", "D", "E", "R", "S", "T", "O", "R", "M", "S">>
Str_HeavyTornado ==
    <<"H", "e", "a", "v", "y", " ", "t", "O", "r", "N", "a", "D", "o">>
Str_Thunder == <<"T", "h", "u", "n", "d", "e", "r">>
Str_TornadoThunderstorm ==
    <<"T", "o", "r", "n", "a", "d", "o", " ", "/", " ">> \o Str_Thunderstorm

WeatherLabels ==
    {Clear, Str_Thunderstorm, Str_THUNDERSTORMS, Str_HeavyTornado, Str_Thunder,
     Str_TornadoThunderstorm}

\* the readings evaluated: both sides of every alert threshold, the gust
\* above every wind bracket, a negative visibility and a nan temperature
InitAlerts ==
    /\ weather_data \in
      { Reading(speed, gust, vis, temp, rain, snow, OfInt(10), pressure, main) :
          speed \in {OfInt(20), Float(205), OfInt(30), Float(305), OfInt(40), OfInt(45)},
          gust \in {OfInt(0), OfInt(50)},
          vis \in {OfInt(-1), Float(5), OfInt(1), OfInt(3), OfInt(12)},
          temp \in {Float(-155), OfInt(-15), OfInt(20), OfInt(45), Float(455), NaN},
          rain \in {OfInt(0), Float(25), OfInt(6), OfInt(10), Float(105)},
          snow \in {OfInt(0), OfInt(6), Float(105)},
          pressure \in {Float(9795), OfInt(980), OfInt(1013), OfInt(1030), Float(10305)},
          main \in WeatherLabels }
        \cup {None}
    /\ sum_impl = "sequential"
    /\ score_ret = NotCalled
    /\ alerts_ret = NotCalled
    /\ active_alerts = <<>>
    /\ now = 0
    /\ rec_args = <<>>
    /\ recs_ret = NotCalled
    /\ log = <<>>
    /\ pc = "idle"
    /\ history = <<>>
    /\ callers = <<>>

CheckWeatherAlerts ==
    /\ alerts_ret = NotCalled
    /\ LET out == check_weather_alerts(weather_data, active_alerts, now)
       IN  /\ alerts_ret' = out.ret
           /\ active_alerts' = out.active_alerts
    /\ UNCHANGED <<weather_data, sum_impl, score_ret, now, rec_args, recs_ret,
                   log, pc, callers, history>>

NextAlerts == CheckWeatherAlerts

SpecAlerts == InitAlerts /\ [][NextAlerts]_vars

(***************************************************************************)
(* FlightAnalyzer.generate_flight_recommendations.  A line is the tuple of *)
(* its text pieces; the emoji that opens every line is left out.           *)
(***************************************************************************)
WindRecommendation(wd) ==
    LET wind_speed == wd.wind.speed
    IN  IF Lt(WIND_SPEED_LIMITS.caution, wind_speed)
        THEN << <<"High wind speeds (", Format1f(wind_speed),
                  " km/h). Consider postponing flight.">> >>
        ELSE IF Lt(WIND_SPEED_LIMITS.safe, wind_speed)
        THEN << <<"Moderate winds (", Format1f(wind_speed),
                  " km/h). Experienced pilots only.">> >>
        ELSE <<>>

VisibilityRecommendation(wd) ==
    LET visibility == wd.visibility
    IN  IF Lt(visibility, VISIBILITY_LIMITS.caution)
        THEN << <<"Low visibility (", Format1f(visibility),
                  " km). Use visual observers.">> >>
        ELSE <<>>

TemperatureRecommendation(wd) ==
    LET temp == wd.temperature.current
    IN  IF Lt(temp, TEMPERATURE_LIMITS.min_safe)
        THEN << <<"Cold temperature (", Format1f(temp),
                  "degC). Check battery performance.">> >>
        ELSE IF Lt(TEMPERATURE_LIMITS.max_safe, temp)
        THEN << <<"High temperature (", Format1f(temp),
                  "degC). Monitor for overheating.">> >>
        ELSE <<>>

\* the snow line made an elif of the rain line
PrecipitationRecommendations_exclusive(wd) ==
    LET rain == wd.precipitation.rain_1h
        snow == wd.precipitation.snow_1h
    IN  IF Lt(OfInt(0), rain)
        THEN << <<"Rain detected (", Format1f(rain),
                  "mm/h). Protect equipment from moisture.">> >>
        ELSE IF Lt(OfInt(0), snow)
        THEN << <<"Snow detected (", Format1f(snow),
                  "mm/h). Cold weather precautions advised.">> >>
        ELSE <<>>

PrecipitationRecommendations(wd) ==
    LET rain == wd.precipitation.rain_1h
        snow == wd.precipitation.snow_1h
    IN  (IF Lt(OfInt(0), rain)
         THEN << <<"Rain detected (", Format1f(rain),
                   "mm/h). Protect equipment from moisture.">> >>
         ELSE <<>>)
        \o
        (IF Lt(OfInt(0), snow)
         THEN << <<"Snow detected (", Format1f(snow),
                   "mm/h). Cold weather precautions advised.">> >>
         ELSE <<>>)

\* the general recommendation appended last
LevelRecommendation(safety_level) ==
    IF safety_level = "SAFE"
    THEN << <<"Conditions are favorable for flight operations.">> >>
    ELSE IF safety_level = "CAUTION"
    THEN << <<"Proceed with caution. Monitor conditions closely.">> >>
    ELSE IF safety_level = "DANGEROUS"
    THEN << <<"Flight not recommended. Wait for better conditions.">> >>
    ELSE << <<"DO NOT FLY. Conditions are unsafe for operations.">> >>

\* weather_data['wind'] of None raises TypeError; score is not read
generate_flight_recommendations(wd, score, safety_level) ==
    IF wd = None THEN Raise("TypeError")
    ELSE Return(WindRecommendation(wd) \o VisibilityRecommendation(wd)
                  \o TemperatureRecommendation(wd)
                  \o PrecipitationRecommendations(wd)
                  \o LevelRecommendation(safety_level))

(***************************************************************************)
(* Recommendations: one call with a reading (or None), a score and a tier. *)
(***************************************************************************)
RecScores == {0, 100}

\* both sides of every advisory threshold
InitRecs ==
    /\ weather_data \in
      { Reading(speed, OfInt(0), vis, temp, rain, snow, OfInt(10), OfInt(1013), Clear) :
          speed \in {OfInt(15), Float(155), OfInt(25), Float(255)},
          vis \in {Float(45), OfInt(5)},
          temp \in {Float(-105), OfInt(-10), OfInt(40), Float(405), NaN},
          rain \in {OfInt(0), Float(5)},
          snow \in {OfInt(0), Float(5)} }
        \cup {None}
    /\ sum_impl = "sequential"
    /\ score_ret = NotCalled
    /\ alerts_ret = NotCalled
    /\ active_alerts = <<>>
    /\ now = 0
    /\ rec_args = <<>>
    /\ recs_ret = NotCalled
    /\ log = <<>>
    /\ pc = "idle"
    /\ history = <<>>
    /\ callers = <<>>

GenerateFlightRecommendations ==
    /\ recs_ret = NotCalled
    /\ \E score \in RecScores, safety_level \in FlightSafety :
          /\ rec_args' = <<score, safety_level>>
          /\ recs_ret' = generate_flight_recommendations(weather_data, score,
                                                         safety_level)
    /\ UNCHANGED <<weather_data, sum_impl, score_ret, alerts_ret, active_alerts,
                   now, log, pc, callers, history>>

NextRecs == GenerateFlightRecommendations

SpecRecs == InitRecs /\ [][NextRecs]_vars

(***************************************************************************)
(* A session: one FlightAnalyzer and one WeatherAlerts instance serve a    *)
(* series of calls while the wall clock advances.  datetime.now() may or   *)
(* may not have moved between two calls.                                   *)
(***************************************************************************)
MaxCalls == 2
MaxClock == 2

Call(fn, args, ret) == [fn |-> fn, args |-> args, ret |-> ret]

Calm ==
    Reading(OfInt(10), OfInt(0), OfInt(12), OfInt(20), OfInt(0), OfInt(0),
            OfInt(10), OfInt(1013), Clear)
Windy ==
    Reading(OfInt(45), OfInt(0), OfInt(12), OfInt(20), OfInt(0), OfInt(0),
            OfInt(10), OfInt(1013), Clear)
Storm ==
    Reading(OfInt(10), OfInt(0), OfInt(12), OfInt(20), OfInt(6), OfInt(0),
            OfInt(90), OfInt(1013), Str_Thunderstorm)

SessionReadings == {Calm, Windy, Storm, None}

InitSession ==
    /\ weather_data = None
    /\ sum_impl \in SumImpls
    /\ score_ret = NotCalled
    /\ alerts_ret = NotCalled
    /\ active_alerts = <<>>
    /\ now = 0
    /\ rec_args = <<>>
    /\ recs_ret = NotCalled
    /\ log = <<>>
    /\ pc = "idle"
    /\ history = <<>>
    /\ callers = <<>>

SessionScore ==
    /\ Len(log) < MaxCalls
    /\ \E wd \in SessionReadings :
          LET ret == calculate_flight_score(wd, sum_impl)
          IN  /\ weather_data' = wd
              /\ score_ret' = ret
              /\ log' = Append(log, Call("calculate_flight_score", <<wd>>, ret))
    /\ UNCHANGED <<sum_impl, alerts_ret, active_alerts, now, rec_args, recs_ret,
                   pc, callers, history>>

SessionCheck ==
    /\ Len(log) < MaxCalls
    /\ \E wd \in SessionReadings :
          LET out == check_weather_alerts(wd, active_alerts, now)
          IN  /\ weather_data' = wd
              /\ alerts_ret' = out.ret
              /\ active_alerts' = out.active_alerts
              /\ log' = Append(log, Call("check_weather_alerts", <<wd>>, out.ret))
    /\ UNCHANGED <<sum_impl, score_ret, now, rec_args, recs_ret, pc, callers,
               history>>

SessionRecommend ==
    /\ Len(log) < MaxCalls
    /\ \E wd \in SessionReadings, safety_level \in FlightSafety :
          LET ret == generate_flight_recommendations(wd, 0, safety_level)
          IN  /\ weather_data' = wd
              /\ rec_args' = <<0, safety_level>>
              /\ recs_ret' = ret
              /\ log' = Append(log, Call("generate_flight_recommendations",
                                         <<wd, 0, safety_level>>, ret))
    /\ UNCHANGED <<sum_impl, score_ret, alerts_ret, active_alerts, now, pc,
                   callers, history>>

Tick ==
    /\ now < MaxClock
    /\ now' = now + 1
    /\ UNCHANGED <<weather_data, sum_impl, score_ret, alerts_ret, active_alerts,
                   rec_args, recs_ret, log, pc, callers, history>>

NextSession == SessionScore \/ SessionCheck \/ SessionRecommend \/ Tick

SpecSession == InitSession /\ [][NextSession]_vars

(***************************************************************************)
(* Callers in parallel: each caller scores its own reading and has it      *)
(* checked for alerts on the one FlightAnalyzer and the one WeatherAlerts  *)
(* instance.  Threads switch between bytecodes, so building the local list *)
(* alerts, storing it in self.active_alerts and returning it are steps of  *)
(* their own.                                                              *)
(***************************************************************************)
NumCallers == 2

Frame(wd) ==
    [weather_data |-> wd, pc |-> "start", score_ret |-> NotCalled,
     alerts |-> <<>>, alerts_ret |-> NotCalled]

ParallelReadings == {Calm, Windy, Storm}

InitParallel ==
    /\ weather_data = None
    /\ sum_impl \in SumImpls
    /\ score_ret = NotCalled
    /\ alerts_ret = NotCalled
    /\ active_alerts = <<>>
    /\ now = 0
    /\ rec_args = <<>>
    /\ recs_ret = NotCalled
    /\ log = <<>>
    /\ pc = "idle"
    /\ history = <<>>
    /\ \E wds \in [1..NumCallers -> ParallelReadings] :
          /\ \A c, d \in 1..NumCallers : c # d => wds[c] # wds[d]
          /\ callers = [c \in 1..NumCallers |-> Frame(wds[c])]

\* flight_analyzer.py:22-55 in the caller's thread
ParallelScore(c) ==
    /\ callers[c].pc = "start"
    /\ callers' = [callers EXCEPT
          ![c].score_ret = calculate_flight_score(callers[c].weather_data, sum_impl),
          ![c].pc = "scored"]
    /\ UNCHANGED <<weather_data, sum_impl, score_ret, alerts_ret, active_alerts,
                   now, rec_args, recs_ret, log, pc, history>>

\* Weather_alerts.py:29-127: the local list alerts is filled
ParallelBuild(c) ==
    /\ callers[c].pc = "scored"
    /\ callers' = [callers EXCEPT
          ![c].alerts = AlertList(callers[c].weather_data, now),
          ![c].pc = "built"]
    /\ UNCHANGED <<weather_data, sum_impl, score_ret, alerts_ret, active_alerts,
                   now, rec_args, recs_ret, log, pc, history>>

\* Weather_alerts.py:129: self.active_alerts = alerts
ParallelStore(c) ==
    /\ callers[c].pc = "built"
    /\ active_alerts' = callers[c].alerts
    /\ callers' = [callers EXCEPT ![c].pc = "stored"]
    /\ UNCHANGED <<weather_data, sum_impl, score_ret, alerts_ret, now, rec_args,
                   recs_ret, log, pc, history>>

\* Weather_alerts.py:130: return alerts
ParallelReturn(c) ==
    /\ callers[c].pc = "stored"
    /\ callers' = [callers EXCEPT
          ![c].alerts_ret = Return(callers[c].alerts),
          ![c].pc = "done"]
    /\ log' = Append(log, Call("check_weather_alerts",
                               <<callers[c].weather_data>>,
                               Return(callers[c].alerts)))
    /\ UNCHANGED <<weather_data, sum_impl, score_ret, alerts_ret, active_alerts,
                   now, rec_args, recs_ret, pc, history>>

NextParallel ==
    \/ \E c \in 1..NumCallers : ParallelScore(c)
    \/ \E c \in 1..NumCallers : ParallelBuild(c)
    \/ \E c \in 1..NumCallers : ParallelStore(c)
    \/ \E c \in 1..NumCallers : ParallelReturn(c)
    \/ Tick

SpecParallel == InitParallel /\ [][NextParallel]_vars

(***************************************************************************)
(* Sub-scores: _analyze_wind and _analyze_precipitation applied to a       *)
(* series of inputs.  The precipitation amounts include tenths that are    *)
(* not binary fractions.                                                   *)
(***************************************************************************)
WindInputs ==
    { [speed |-> speed, gust |-> gust] :
        speed \in {OfInt(14), OfInt(15), Float(155), OfInt(16), Float(245),
                   OfInt(25), Float(255), Float(345), OfInt(35), Float(355)},
        gust \in {OfInt(0), Float(255), PosInf, NaN} }

PrecipitationInputs ==
    { [rain_1h |-> rain, snow_1h |-> snow] :
        rain \in {OfInt(0), Float(2), Float(3), Float(25), Float(75), Float(76),
                  OfInt(50)},
        snow \in {OfInt(0), Float(1), Float(22), Float(74), Float(505)} }

InitSubScores ==
    /\ weather_data = None
    /\ sum_impl = "sequential"
    /\ score_ret = NotCalled
    /\ alerts_ret = NotCalled
    /\ active_alerts = <<>>
    /\ now = 0
    /\ rec_args = <<>>
    /\ recs_ret = NotCalled
    /\ log = <<>>
    /\ pc = "idle"
    /\ history = <<>>
    /\ callers = <<>>

AnalyzeWind ==
    /\ Len(log) < MaxCalls
    /\ \E wind_data \in WindInputs :
          log' = Append(log, Call("_analyze_wind", <<wind_data>>,
                                  Return(_analyze_wind(wind_data))))
    /\ UNCHANGED <<weather_data, sum_impl, score_ret, alerts_ret, active_alerts,
                   now, rec_args, recs_ret, pc, callers, history>>

AnalyzePrecipitation ==
    /\ Len(log) < MaxCalls
    /\ \E precip_data \in PrecipitationInputs :
          log' = Append(log, Call("_analyze_precipitation", <<precip_data>>,
                                  Return(_analyze_precipitation(precip_data))))
    /\ UNCHANGED <<weather_data, sum_impl, score_ret, alerts_ret, active_alerts,
                   now, rec_args, recs_ret, pc, callers, history>>

NextSubScores == AnalyzeWind \/ AnalyzePrecipitation

SpecSubScores == InitSubScores /\ [][NextSubScores]_vars

(***************************************************************************)
(* The 'weather <location>' command of WeatherAssistant.run: the fetcher   *)
(* hands back a reading or None, and display_current_weather reports on    *)
(* the reading.  FlightAnalyzer has no method get_safety_level, so the     *)
(* call at Weather_display.py:54 raises AttributeError, which unwinds      *)
(* display_current_weather and get_current_weather and is caught and       *)
(* printed by the loop of run.                                             *)
(***************************************************************************)
CommandReadings ==
    { Reading(speed, OfInt(0), vis, OfInt(20), rain, OfInt(0), OfInt(10),
              OfInt(1013), main) :
        speed \in {OfInt(10), OfInt(45)},
        vis \in {OfInt(12), Float(5)},
        rain \in {OfInt(0), OfInt(6)},
        main \in {Clear, Str_Thunderstorm} }

Fetches == {n \in DOMAIN log : log[n].fn = "get_current_weather"}

InitCommand ==
    /\ weather_data = None
    /\ sum_impl \in SumImpls
    /\ score_ret = NotCalled
    /\ alerts_ret = NotCalled
    /\ active_alerts = <<>>
    /\ now = 0
    /\ rec_args = <<>>
    /\ recs_ret = NotCalled
    /\ log = <<>>
    /\ pc = "prompt"
    /\ history = <<>>
    /\ callers = <<>>

\* main.py:26-35 and 56-64: the command is read and the reading fetched
FetchWeather ==
    /\ pc = "prompt"
    /\ Cardinality(Fetches) < MaxCalls
    /\ \E wd \in CommandReadings \cup {None} :
          /\ weather_data' = wd
          /\ log' = Append(log, Call("get_current_weather", <<"location">>,
                                     Return(wd)))
    /\ pc' = "fetched"
    /\ UNCHANGED <<sum_impl, score_ret, alerts_ret, active_alerts, now, rec_args,
                   recs_ret, callers, history>>

\* main.py:65 and 79-80: nothing was fetched
CouldNotFetch ==
    /\ pc = "fetched"
    /\ weather_data = None
    /\ pc' = "prompt"
    /\ UNCHANGED <<weather_data, sum_impl, score_ret, alerts_ret, active_alerts,
                   now, rec_args, recs_ret, log, callers, history>>

\* main.py:65-66, Weather_display.py:49-53
DisplayCalculateFlightScore ==
    /\ pc = "fetched"
    /\ weather_data # None
    /\ LET ret == calculate_flight_score(weather_data, sum_impl)
       IN  /\ score_ret' = ret
           /\ log' = Append(log, Call("calculate_flight_score", <<weather_data>>,
                                      ret))
    /\ pc' = "scored"
    /\ UNCHANGED <<weather_data, sum_impl, alerts_ret, active_alerts, now,
                   rec_args, recs_ret, callers, history>>

\* Weather_display.py:54, main.py:53-54
DisplayGetSafetyLevel ==
    /\ pc = "scored"
    /\ log' = Append(log, Call("get_safety_level", <<score_ret>>,
                               Raise("AttributeError")))
    /\ pc' = "prompt"
    /\ UNCHANGED <<weather_data, sum_impl, score_ret, alerts_ret, active_alerts,
                   now, rec_args, recs_ret, callers, history>>

NextCommand ==
    FetchWeather \/ CouldNotFetch \/ DisplayCalculateFlightScore
      \/ DisplayGetSafetyLevel

SpecCommand == InitCommand /\ [][NextCommand]_vars

(***************************************************************************)
(* The command loop of WeatherAssistant.run with all of its commands.  The *)
(* 'weather' command is the one above.  A handler that raises is unwound   *)
(* to the loop, which prints the error and prompts again (main.py:53-54).  *)
(* Of the handlers only get_current_weather writes history (main.py:69-78),*)
(* after display_current_weather has returned; that call always raises at  *)
(* Weather_display.py:54, so the lines that append and trim are never      *)
(* executed and no action below assigns history.                           *)
(***************************************************************************)
MaxCommands == 2

CommandHandlers ==
    {"get_current_weather", "get_forecast", "get_multiple_locations",
     "show_active_alerts", "show_history", "show_configuration", "show_help",
     "unknown_command"}

Commands == {n \in DOMAIN log : log[n].fn \in CommandHandlers}

AtPrompt ==
    /\ pc = "prompt"
    /\ Cardinality(Commands) < MaxCommands

\* main.py:77: the number of entries history keeps
HistoryLimit == 10

\* main.py:69-78: the entry is appended, and the oldest entry dropped once
\* there are more than ten
RecordQuery(h, entry) ==
    LET appended == Append(h, entry)
    IN  IF Len(appended) > HistoryLimit THEN Tail(appended) ELSE appended

\* main.py:70-74: the entry of a 'weather' query
HistoryEntry(wd) == [type |-> "current_weather", data |-> wd]

\* main.py:34-35: 'weather <location>'
CliWeather == AtPrompt /\ FetchWeather

\* main.py:36-37 and 82-94: 'forecast <location>'; the forecast is displayed
\* or reported as not fetched
CliForecast ==
    /\ AtPrompt
    /\ \E fetched \in BOOLEAN :
          log' = Append(log, Call("get_forecast", <<"location">>,
                                  Return(IF fetched THEN "forecast"
                                                    ELSE "could not fetch")))
    /\ UNCHANGED <<weather_data, sum_impl, score_ret, alerts_ret, active_alerts,
                   now, rec_args, recs_ret, pc, callers, history>>

\* Weather_display.py:139-142: the summary scores the first location fetched
\* and then calls get_safety_level, which FlightAnalyzer does not have
display_multi_location_summary(locations, impl) ==
    LET ret == calculate_flight_score(locations[1], impl)
    IN  <<Call("calculate_flight_score", <<locations[1]>>, ret),
          Call("get_safety_level", <<ret>>, Raise("AttributeError"))>>

\* main.py:38-39 and 96-106: 'multi'; locations holds the readings of the
\* default locations that could be fetched, in the order of the list
CliMulti ==
    /\ AtPrompt
    /\ \E locations \in {<<>>, <<Calm>>, <<Storm, Calm>>} :
          log' = Append(log, Call("get_multiple_locations", <<>>,
                                  Return(locations)))
                   \o (IF locations # <<>>
                       THEN display_multi_location_summary(locations, sum_impl)
                       ELSE <<>>)
    /\ UNCHANGED <<weather_data, sum_impl, score_ret, alerts_ret, active_alerts,
                   now, rec_args, recs_ret, pc, callers, history>>

show_active_alerts_inverted(active) ==
    IF active = <<>>
    THEN Raise("AttributeError")
    ELSE Return("No active weather alerts")

\* main.py:108-118: with active alerts the handler reaches for
\* self.display.console, which WeatherDisplay does not have
show_active_alerts(active) ==
    IF active # <<>>
    THEN Raise("AttributeError")
    ELSE Return("No active weather alerts")

\* main.py:40-41: 'alerts'
CliAlerts ==
    /\ AtPrompt
    /\ log' = Append(log, Call("show_active_alerts", <<>>,
                               show_active_alerts(active_alerts)))
    /\ UNCHANGED <<weather_data, sum_impl, score_ret, alerts_ret, active_alerts,
                   now, rec_args, recs_ret, pc, callers, history>>

\* main.py:120-134
show_history(h) ==
    IF h = <<>>
    THEN Return("No weather history available")
    ELSE Return("Recent Weather Queries")

\* main.py:42-43: 'history'
CliHistory ==
    /\ AtPrompt
    /\ log' = Append(log, Call("show_history", <<>>, show_history(history)))
    /\ UNCHANGED <<weather_data, sum_impl, score_ret, alerts_ret, active_alerts,
                   now, rec_args, recs_ret, pc, callers, history>>

\* main.py:44-45 and 136-158: 'config'; Config has no OPENWEATHER_API_KEY, so
\* building the text raises (main.py:156)
CliConfig ==
    /\ AtPrompt
    /\ log' = Append(log, Call("show_configuration", <<>>,
                               Raise("AttributeError")))
    /\ UNCHANGED <<weather_data, sum_impl, score_ret, alerts_ret, active_alerts,
                   now, rec_args, recs_ret, pc, callers, history>>

\* main.py:32-33 and 160-190: 'help'
CliHelp ==
    /\ AtPrompt
    /\ log' = Append(log, Call("show_help", <<>>, Return(None)))
    /\ UNCHANGED <<weather_data, sum_impl, score_ret, alerts_ret, active_alerts,
                   now, rec_args, recs_ret, pc, callers, history>>

\* main.py:46-48: any other text
CliUnknown ==
    /\ AtPrompt
    /\ log' = Append(log, Call("unknown_command", <<>>, Return(None)))
    /\ UNCHANGED <<weather_data, sum_impl, score_ret, alerts_ret, active_alerts,
                   now, rec_args, recs_ret, pc, callers, history>>

\* main.py:29-31 and 50-52: 'quit', 'exit', 'q' or an interrupt
CliQuit ==
    /\ pc = "prompt"
    /\ pc' = "exited"
    /\ UNCHANGED <<weather_data, sum_impl, score_ret, alerts_ret, active_alerts,
                   now, rec_args, recs_ret, log, callers, history>>

NextCli ==
    CliWeather \/ CouldNotFetch \/ DisplayCalculateFlightScore
      \/ DisplayGetSafetyLevel \/ CliForecast \/ CliMulti \/ CliAlerts
      \/ CliHistory \/ CliConfig \/ CliHelp \/ CliUnknown \/ CliQuit

SpecCli == InitCommand /\ [][NextCli]_vars

(***************************************************************************)
(* Assessment: one reading is both scored and checked for alerts, in       *)
(* either order.                                                           *)
(***************************************************************************)
\* wind speeds on both sides of 30 and 35 (30.1 is not a binary fraction;
\* 30.1 - 25 is computed exactly and doubling it is exact, so the truncated
\* penalty is that of the decimal), with the best and the worst of the other
\* factors
InitAssess ==
    /\ weather_data \in
      { Reading(speed, gust, vis, temp, rain, OfInt(0), cloud, OfInt(1013), Clear) :
          speed \in {OfInt(30), Float(301), Float(305), OfInt(35), Float(355),
                     OfInt(45)},
          gust \in {OfInt(0), OfInt(50), NaN},
          vis \in {OfInt(12), Float(5)},
          temp \in {OfInt(20), OfInt(48), NaN},
          rain \in {OfInt(0), OfInt(6)},
          cloud \in {OfInt(10), OfInt(90)} }
    /\ sum_impl \in SumImpls
    /\ score_ret = NotCalled
    /\ alerts_ret = NotCalled
    /\ active_alerts = <<>>
    /\ now = 0
    /\ rec_args = <<>>
    /\ recs_ret = NotCalled
    /\ log = <<>>
    /\ pc = "idle"
    /\ history = <<>>
    /\ callers = <<>>

NextAssess == CalculateFlightScore \/ CheckWeatherAlerts

SpecAssess == InitAssess /\ [][NextAssess]_vars

(***************************************************************************)
(* Properties of calculate_flight_score.                                   *)
(***************************************************************************)
Scored == score_ret # NotCalled
Present == weather_data # None

\* a numeric field that is not finite or lies outside its domain
InvalidReading(wd) ==
    \/ \E x \in {wd.wind.speed, wd.wind.gust, wd.visibility,
                 wd.temperature.current, wd.precipitation.rain_1h,
                 wd.precipitation.snow_1h, wd.cloudiness, wd.pressure} :
           ~IsFinite(x)
    \/ \E x \in {wd.wind.speed, wd.wind.gust, wd.visibility,
                 wd.precipitation.rain_1h, wd.precipitation.snow_1h,
                 wd.cloudiness, wd.pressure} :
           Lt(x, OfInt(0))
    \/ Lt(OfInt(100), wd.cloudiness)

\* C1: for every non-absent reading calculate_flight_score returns (it does
\* not raise) an integer score s with 0 <= s <= 100, whatever the values of
\* the fields.
C1_ScoreInRange ==
    (Present /\ Scored) =>
        /\ score_ret.kind = "return"
        /\ score_ret.value[1] \in 0..100

\* C1 witness: a present reading whose every factor is at its best has been
\* scored 100, the upper end of the range.
C1_Witness == Present /\ Scored /\ score_ret = Return(<<100, "SAFE">>)

\* the tier the specification assigns to an integer score
TierOfScore(s) ==
    IF s >= 80 THEN "SAFE"
    ELSE IF s >= 60 THEN "CAUTION"
    ELSE IF s >= 30 THEN "DANGEROUS"
    ELSE "NO_FLY"

\* C2: the returned tier is determined by the returned integer score with
\* inclusive lower bounds: >= 80 SAFE, 60..79 CAUTION, 30..59 DANGEROUS,
\* below 30 NO_FLY.
C2_TierFromScore ==
    (Scored /\ score_ret.kind = "return") =>
        score_ret.value[2] = TierOfScore(score_ret.value[1])

\* C2 witness: a reading scored exactly 80 and rated SAFE.
C2_Witness == Present /\ Scored /\ score_ret = Return(<<80, "SAFE">>)

\* floor(0.30*wind + 0.25*visibility + 0.15*temperature + 0.20*precipitation
\* + 0.10*cloudiness) in exact arithmetic; sub-scores in tenths, weights in
\* thousandths
ExactFloor(sub) ==
    (300 * sub[1].v + 250 * sub[2].v + 150 * sub[3].v + 200 * sub[4].v
       + 100 * sub[5].v) \div (10 * Milli)

\* C3 (as claimed): the returned score equals the floor of the weighted sum
\* 0.30*wind + 0.25*visibility + 0.15*temperature + 0.20*precipitation +
\* 0.10*cloudiness of the reading's sub-scores.
C3_ScoreIsFloorOfWeightedSum ==
    (Present /\ Scored /\ score_ret.kind = "return") =>
        score_ret.value[1] = ExactFloor(SubScores(weather_data))

\* C4: calculate_flight_score of an absent reading returns score 0 and tier
\* NO_FLY and raises nothing.
C4_AbsentScoresZeroNoFly ==
    (~Present /\ Scored) => score_ret = Return(<<0, "NO_FLY">>)

\* C4 witness: the absent reading has been scored.
C4_Witness == ~Present /\ Scored

\* C5 (as claimed): for a reading with a non-finite or out-of-domain numeric
\* field (such as a negative visibility), scoring and alert evaluation raise
\* InvalidInputError and return nothing.
C5_InvalidInputRaises ==
    (Present /\ InvalidReading(weather_data)) =>
        /\ Scored => score_ret = Raise("InvalidInputError")
        /\ alerts_ret # NotCalled => alerts_ret = Raise("InvalidInputError")

(***************************************************************************)
(* Properties of check_weather_alerts and generate_flight_recommendations. *)
(***************************************************************************)
Evaluated == alerts_ret # NotCalled
Recommended == recs_ret # NotCalled

\* C6 (as claimed): for an absent reading check_weather_alerts returns the
\* empty list and generate_flight_recommendations returns exactly the NO_FLY
\* closing line; neither raises.
C6_AbsentIsFailSafe ==
    ~Present =>
        /\ Evaluated => alerts_ret = Return(<<>>)
        /\ (Recommended /\ rec_args[2] = "NO_FLY") =>
              recs_ret = Return(<< <<"DO NOT FLY. Conditions are unsafe for operations.">> >>)

\* the four closing lines, by tier
ClosingLines ==
    [SAFE |-> <<"Conditions are favorable for flight operations.">>,
     CAUTION |-> <<"Proceed with caution. Monitor conditions closely.">>,
     DANGEROUS |-> <<"Flight not recommended. Wait for better conditions.">>,
     NO_FLY |-> <<"DO NOT FLY. Conditions are unsafe for operations.">>]

\* C7 (as claimed): for every reading, absent or not, and every tier
\* generate_flight_recommendations returns a non-empty sequence whose last
\* element is the closing line of the given tier, and exactly one element of
\* the sequence is a closing line.
C7_ClosingLineLast ==
    Recommended =>
        /\ recs_ret.kind = "return"
        /\ Len(recs_ret.value) >= 1
        /\ recs_ret.value[Len(recs_ret.value)] = ClosingLines[rec_args[2]]
        /\ Cardinality({i \in DOMAIN recs_ret.value :
                          \E t \in FlightSafety : recs_ret.value[i] = ClosingLines[t]}) = 1

WindTitles == {"Extreme Wind Warning", "High Wind Warning", "Wind Advisory"}

\* the level the wind rule assigns to a raw wind speed (<<>> for no alert)
WindBracket(speed) ==
    IF Lt(OfInt(40), speed) THEN <<"EMERGENCY">>
    ELSE IF Lt(OfInt(30), speed) THEN <<"CRITICAL">>
    ELSE IF Lt(OfInt(20), speed) THEN <<"WARNING">>
    ELSE <<>>

\* wind speed 45 and every other field benign (the gust is free)
WindOnlyReading(wd) ==
    /\ wd.wind.speed = OfInt(45) /\ wd.visibility = OfInt(12)
    /\ wd.temperature.current = OfInt(20)
    /\ wd.precipitation.rain_1h = OfInt(0) /\ wd.precipitation.snow_1h = OfInt(0)
    /\ wd.pressure = OfInt(1013) /\ wd.weather.main = Clear

\* C8: the wind rule reads the raw wind speed only and emits at most one wind
\* alert, that of the highest matching bracket (> 40 EMERGENCY, > 30 CRITICAL,
\* > 20 WARNING, else none), whatever the gust; wind speed 45 with all other
\* fields benign yields exactly one alert, an EMERGENCY wind alert.
C8_WindRule ==
    (Present /\ Evaluated) =>
        /\ alerts_ret.kind = "return"
        /\ LET wind == SelectSeq(alerts_ret.value, LAMBDA a : a.title \in WindTitles)
           IN  [i \in DOMAIN wind |-> wind[i].level] = WindBracket(weather_data.wind.speed)
        /\ WindOnlyReading(weather_data) =>
              /\ Len(alerts_ret.value) = 1
              /\ alerts_ret.value[1].level = "EMERGENCY"
              /\ alerts_ret.value[1].title = "Extreme Wind Warning"

\* C8 witness: wind speed 45 under a gust of 50, everything else benign, has
\* been evaluated.
C8_Witness ==
    /\ Present /\ Evaluated /\ WindOnlyReading(weather_data)
    /\ weather_data.wind.gust = OfInt(50)

\* the same letter in either case
SameLetter(a, b) ==
    a = b \/ \E j \in DOMAIN UpperLetters :
                 {a, b} = {UpperLetters[j], LowerLetters[j]}

\* word occurs in str in some letter case
ContainsAnyCase(word, str) ==
    \E i \in 0..(Len(str) - Len(word)) :
        \A j \in 1..Len(word) : SameLetter(str[i + j], word[j])

Stormy(wd) ==
    ContainsAnyCase(thunderstorm, wd.weather.main)
      \/ ContainsAnyCase(tornado, wd.weather.main)

\* C9: whenever weatherMain contains "thunderstorm" or "tornado" in any letter
\* case, the returned alerts contain an EMERGENCY alert, whatever the other
\* fields.
C9_StormIsEmergency ==
    (Present /\ Evaluated /\ Stormy(weather_data)) =>
        /\ alerts_ret.kind = "return"
        /\ \E i \in DOMAIN alerts_ret.value : alerts_ret.value[i].level = "EMERGENCY"

\* C9 witness: a mixed-case tornado label with a wind speed that raises no
\* EMERGENCY of its own has been evaluated.
C9_Witness ==
    /\ Present /\ Evaluated /\ weather_data.wind.speed = OfInt(20)
    /\ weather_data.weather.main = Str_HeavyTornado

\* no alert condition holds
NoAlertCondition(wd) ==
    /\ Le(wd.wind.speed, OfInt(20))
    /\ Le(OfInt(3), wd.visibility)
    /\ Le(OfInt(-15), wd.temperature.current) /\ Le(wd.temperature.current, OfInt(45))
    /\ Le(wd.precipitation.rain_1h, Float(25)) /\ Le(wd.precipitation.snow_1h, Float(25))
    /\ Le(OfInt(980), wd.pressure) /\ Le(wd.pressure, OfInt(1030))
    /\ ~Stormy(wd)

\* C10: check_weather_alerts never fails for a valid reading, and returns the
\* empty sequence exactly when no alert condition holds.
C10_EmptyIffNoCondition ==
    (Present /\ Evaluated /\ ~InvalidReading(weather_data)) =>
        /\ alerts_ret.kind = "return"
        /\ (alerts_ret.value = <<>>) <=> NoAlertCondition(weather_data)

\* C10 witness: a valid reading with every field on its threshold has been
\* evaluated and raised no alert.
C10_Witness ==
    /\ Present /\ Evaluated /\ alerts_ret = Return(<<>>)
    /\ weather_data.wind.speed = OfInt(20) /\ weather_data.visibility = OfInt(3)
    /\ weather_data.temperature.current = OfInt(45)
    /\ weather_data.precipitation.rain_1h = Float(25)
    /\ weather_data.pressure = OfInt(980)

(***************************************************************************)
(* Properties of a session.                                                *)
(***************************************************************************)
\* the alerts a call handed back; a call that raised handed back none
AlertsOf(ret) == IF ret.kind = "return" THEN ret.value ELSE <<>>

\* the positions of the check_weather_alerts calls in the log
Checks == {n \in DOMAIN log : log[n].fn = "check_weather_alerts"}

\* C11 (as claimed): after any sequence of check_weather_alerts calls on one
\* WeatherAlerts instance, active_alerts is exactly the alerts returned by
\* the most recent call; no alert of an earlier call persists.
C11_ActiveIsLastReturned ==
    \A n \in Checks :
        (\A k \in Checks : k <= n) => active_alerts = AlertsOf(log[n].ret)

\* C12 (as claimed): two calls of the same operation with identical
\* arguments give identical output, every field of every alert included.
C12_Idempotent ==
    \A i, j \in DOMAIN log :
        (log[i].fn = log[j].fn /\ log[i].args = log[j].args) =>
            log[i].ret = log[j].ret

(***************************************************************************)
(* Properties of callers in parallel.                                      *)
(***************************************************************************)
\* alerts without their timestamps
Untimed(alerts) ==
    [i \in DOMAIN alerts |->
        [level |-> alerts[i].level, title |-> alerts[i].title,
         message |-> alerts[i].message]]

AllDone == callers # <<>> /\ \A c \in DOMAIN callers : callers[c].pc = "done"

\* C13 (as claimed): when the callers have evaluated their different
\* readings on the shared instances, each call has returned the result for
\* its own reading, and the engine state left behind is the same whichever
\* call finished last: it is what any of the calls would leave.
C13_NoCrossCallState ==
    AllDone =>
        \A c \in DOMAIN callers :
            /\ callers[c].score_ret.kind = "return"
            /\ Untimed(callers[c].alerts_ret.value)
                  = Untimed(AlertList(callers[c].weather_data, 0))
            /\ Untimed(active_alerts)
                  = Untimed(AlertList(callers[c].weather_data, 0))

(***************************************************************************)
(* Properties of the sub-scores.                                           *)
(***************************************************************************)
WindCalls == {n \in DOMAIN log : log[n].fn = "_analyze_wind"}
PrecipitationCalls == {n \in DOMAIN log : log[n].fn = "_analyze_precipitation"}

\* the greater of speed and gust
EffectiveWind(wind_data) ==
    IF Lt(wind_data.speed, wind_data.gust) THEN wind_data.gust ELSE wind_data.speed

\* C14: the wind sub-score is monotonically non-increasing in the effective
\* wind: effective wind w1 <= w2 implies subscore(w1) >= subscore(w2), also
\* across the breakpoints 15, 25 and 35.
C14_WindMonotone ==
    \A i, j \in WindCalls :
        Le(EffectiveWind(log[i].args[1]), EffectiveWind(log[j].args[1]))
            => Le(log[j].ret.value, log[i].ret.value)

\* C14 witness: effective winds 25 and 25.5, on the two sides of a
\* breakpoint, have been scored 40 and 39.
C14_Witness ==
    \E i, j \in WindCalls :
        /\ EffectiveWind(log[i].args[1]) = OfInt(25) /\ log[i].ret.value = OfInt(40)
        /\ EffectiveWind(log[j].args[1]) = Float(255) /\ log[j].ret.value = OfInt(39)

\* the wind sub-score of the specification, in tenths of a point, for an
\* effective wind of w tenths
ClaimedWindScore(w) ==
    IF Le(w, OfInt(15)) THEN Float(1000)
    ELSE IF Le(w, OfInt(25)) THEN Float(700 - 3 * (w.v - 150))
    ELSE IF Le(w, OfInt(35)) THEN Float(400 - 2 * (w.v - 250))
    ELSE Float(0)

NoNaN(wind_data) == wind_data.speed.k # "nan" /\ wind_data.gust.k # "nan"

\* C15 (as claimed): the wind sub-score is 100 if effectiveWind <= 15,
\* 70 - 3*(effectiveWind - 15) up to 25, 40 - 2*(effectiveWind - 25) up to
\* 35 and 0 above, with effectiveWind = max(speed, gust).
C15_WindFormula ==
    \A n \in WindCalls :
        NoNaN(log[n].args[1]) =>
            log[n].ret.value = ClaimedWindScore(EffectiveWind(log[n].args[1]))

\* the penalty truncated toward zero to a whole number of points
TruncatedWindScore(w) ==
    IF Le(w, OfInt(15)) THEN OfInt(100)
    ELSE IF Le(w, OfInt(25)) THEN OfInt(70 - ((3 * (w.v - 150)) \div 10))
    ELSE IF Le(w, OfInt(35)) THEN OfInt(40 - ((2 * (w.v - 250)) \div 10))
    ELSE OfInt(0)

\* C15 (amended): the wind sub-score is 100 if effectiveWind <= 15,
\* 70 - trunc(3*(effectiveWind - 15)) up to 25,
\* 40 - trunc(2*(effectiveWind - 25)) up to 35 and 0 above, with
\* effectiveWind = max(speed, gust) and trunc dropping the fraction.
C15_WindFormulaTruncated ==
    \A n \in WindCalls :
        NoNaN(log[n].args[1]) =>
            log[n].ret.value = TruncatedWindScore(EffectiveWind(log[n].args[1]))

\* C15 witness: speed 14 under a gust of 25.5 has been scored 39, the gust
\* being the effective wind and the penalty 2 * 0.5 = 1.0.
C15_Witness ==
    \E n \in WindCalls :
        /\ log[n].args[1] = [speed |-> OfInt(14), gust |-> Float(255)]
        /\ log[n].ret.value = OfInt(39)

\* the precipitation sub-score the specification gives a sum of t tenths
ClaimedPrecipitationScore(t) ==
    IF t = 0 THEN OfInt(100)
    ELSE IF t <= 25 THEN OfInt(80)
    ELSE IF t <= 76 THEN OfInt(50)
    ELSE IF t <= 500 THEN OfInt(20)
    ELSE OfInt(0)

\* C16 (as claimed): the precipitation sub-score is a function of the sum
\* rain1h + snow1h only (100 if 0, 80 if <= 2.5, 50 if <= 7.6, 20 if <= 50,
\* else 0), so readings with the same sum get the same sub-score however the
\* amount is split.
C16_PrecipitationBySum ==
    \A n \in PrecipitationCalls :
        log[n].ret.value =
            ClaimedPrecipitationScore(log[n].args[1].rain_1h.v
                                        + log[n].args[1].snow_1h.v)

(***************************************************************************)
(* Properties of the alert rules.                                          *)
(***************************************************************************)
PrecipitationTitles == {"Heavy Precipitation Warning", "Precipitation Advisory"}

\* the level the precipitation rule assigns (<<>> for no alert)
PrecipitationBracket(rain, snow) ==
    IF Lt(OfInt(10), rain) \/ Lt(OfInt(10), snow) THEN <<"CRITICAL">>
    ELSE IF Lt(Float(25), rain) \/ Lt(Float(25), snow) THEN <<"WARNING">>
    ELSE <<>>

\* C17: the precipitation rule tests rain and snow separately, not their
\* sum, and emits at most one alert: CRITICAL if rain > 10 or snow > 10,
\* otherwise WARNING if rain > 2.5 or snow > 2.5, otherwise none; rain 6 with
\* snow 6 gives a WARNING.
C17_PrecipitationRule ==
    (Present /\ Evaluated /\ alerts_ret.kind = "return") =>
        LET precip == SelectSeq(alerts_ret.value,
                                LAMBDA a : a.title \in PrecipitationTitles)
        IN  [i \in DOMAIN precip |-> precip[i].level]
              = PrecipitationBracket(weather_data.precipitation.rain_1h,
                                     weather_data.precipitation.snow_1h)

\* C17 witness: rain 6 with snow 6 has been evaluated and the list holds a
\* WARNING "Precipitation Advisory".
C17_Witness ==
    /\ Present /\ Evaluated /\ alerts_ret.kind = "return"
    /\ weather_data.precipitation.rain_1h = OfInt(6)
    /\ weather_data.precipitation.snow_1h = OfInt(6)
    /\ \E i \in DOMAIN alerts_ret.value :
          /\ alerts_ret.value[i].title = "Precipitation Advisory"
          /\ alerts_ret.value[i].level = "WARNING"

\* the place of an alert's rule in the declaration order
RuleOf(title) ==
    IF title \in WindTitles THEN 1
    ELSE IF title \in {"Low Visibility Warning", "Reduced Visibility"} THEN 2
    ELSE IF title \in {"Extreme Cold Warning", "Extreme Heat Warning"} THEN 3
    ELSE IF title \in PrecipitationTitles THEN 4
    ELSE IF title \in {"Low Pressure System", "High Pressure System"} THEN 5
    ELSE 6

Severity == [INFO |-> 0, WARNING |-> 1, CRITICAL |-> 2, EMERGENCY |-> 3]

\* C18: the returned alerts are in rule-declaration order (wind, visibility,
\* temperature, precipitation, pressure, weather category): an alert of an
\* earlier rule precedes every alert of a later rule, whatever their levels.
C18_DeclarationOrder ==
    (Present /\ Evaluated /\ alerts_ret.kind = "return") =>
        \A i, j \in DOMAIN alerts_ret.value :
            i < j => RuleOf(alerts_ret.value[i].title)
                       < RuleOf(alerts_ret.value[j].title)

\* C18 witness: six alerts, one per rule, have been returned, the first a
\* WARNING and the last an EMERGENCY.
C18_Witness ==
    /\ Present /\ Evaluated /\ alerts_ret.kind = "return"
    /\ Len(alerts_ret.value) = 6
    /\ Severity[alerts_ret.value[1].level] < Severity[alerts_ret.value[6].level]

(***************************************************************************)
(* Properties of the advisory lines.                                       *)
(***************************************************************************)
\* 1 if the condition holds, else 0
Holds(condition) == IF condition THEN 1 ELSE 0

\* how many of the four conditions other than wind hold
OtherConditions(wd) ==
    Holds(Lt(wd.visibility, OfInt(5)))
      + Holds(Lt(wd.temperature.current, OfInt(-10))
                \/ Lt(OfInt(40), wd.temperature.current))
      + Holds(Lt(OfInt(0), wd.precipitation.rain_1h))
      + Holds(Lt(OfInt(0), wd.precipitation.snow_1h))

\* C19 (as claimed): the result has one advisory line for each of the five
\* conditions that holds (wind speed above 25, visibility below 5,
\* temperature outside [-10, 40], rain nonzero, snow nonzero) and the closing
\* line: (number of conditions that hold) + 1 lines.
C19_OneLinePerCondition ==
    (Present /\ Recommended /\ recs_ret.kind = "return") =>
        Len(recs_ret.value)
          = Holds(Lt(OfInt(25), weather_data.wind.speed))
              + OtherConditions(weather_data) + 1

\* how a line opens
Opening(line) == line[1]

\* the openings of the advisory lines due, in the order of the conditions
AdvisoriesDue(wd) ==
    (IF Lt(OfInt(25), wd.wind.speed) THEN <<"High wind speeds (">>
     ELSE IF Lt(OfInt(15), wd.wind.speed) THEN <<"Moderate winds (">>
     ELSE <<>>)
    \o (IF Lt(wd.visibility, OfInt(5)) THEN <<"Low visibility (">> ELSE <<>>)
    \o (IF Lt(wd.temperature.current, OfInt(-10)) THEN <<"Cold temperature (">>
        ELSE IF Lt(OfInt(40), wd.temperature.current) THEN <<"High temperature (">>
        ELSE <<>>)
    \o (IF Lt(OfInt(0), wd.precipitation.rain_1h) THEN <<"Rain detected (">>
        ELSE <<>>)
    \o (IF Lt(OfInt(0), wd.precipitation.snow_1h) THEN <<"Snow detected (">>
        ELSE <<>>)

\* C19 (amended): the wind condition is wind speed above the safe threshold
\* (15), giving the high-wind line above 25 and the moderate-wind line from
\* 15 to 25; with visibility below 5, temperature below -10 or above 40, rain
\* above 0 and snow above 0 each condition that holds gives exactly one
\* advisory line, in this order, and the result has (number of conditions
\* that hold) + 1 lines.
C19_OneLinePerConditionModerateWind ==
    (Present /\ Recommended /\ recs_ret.kind = "return") =>
        /\ Len(recs_ret.value)
             = Holds(Lt(OfInt(15), weather_data.wind.speed))
                 + OtherConditions(weather_data) + 1
        /\ [i \in 1..(Len(recs_ret.value) - 1) |-> Opening(recs_ret.value[i])]
             = AdvisoriesDue(weather_data)

\* C19 witness: wind speed 15.5 with rain and snow has given the
\* moderate-wind line, the rain line, the snow line and the closing line.
C19_Witness ==
    /\ Present /\ Recommended /\ recs_ret.kind = "return"
    /\ weather_data.wind.speed = Float(155)
    /\ Len(recs_ret.value) = 4
    /\ Opening(recs_ret.value[1]) = "Moderate winds ("
    /\ Opening(recs_ret.value[3]) = "Snow detected ("

(***************************************************************************)
(* Properties of the 'weather <location>' command.                         *)
(***************************************************************************)
\* the steps of the latest command: the log after its fetch
LatestSteps ==
    LET f == CHOOSE n \in Fetches : \A k \in Fetches : k <= n
    IN  SubSeq(log, f + 1, Len(log))

\* the latest command fetched a reading and is over
CommandOver ==
    /\ pc = "prompt" /\ Fetches # {}
    /\ LET f == CHOOSE n \in Fetches : \A k \in Fetches : k <= n
       IN  log[f].ret.value # None

\* C20 (as claimed): for every 'weather <location>' command whose fetch
\* returns a reading, the reading is scored and checked for alerts, then
\* the recommendations are generated, and only then the report completes;
\* every step is reached.
C20_CommandPipeline ==
    CommandOver =>
        \E s, a, r, d \in DOMAIN LatestSteps :
            /\ LatestSteps[s].fn = "calculate_flight_score"
            /\ LatestSteps[a].fn = "check_weather_alerts"
            /\ LatestSteps[r].fn = "generate_flight_recommendations"
            /\ LatestSteps[d].fn = "display_current_weather"
            /\ LatestSteps[d].ret.kind = "return"
            /\ s < r /\ a < r /\ r < d

(***************************************************************************)
(* Properties relating the alerts and the score of one reading.            *)
(***************************************************************************)
\* the returned alerts hold a CRITICAL or EMERGENCY wind alert
SevereWindAlert ==
    /\ Evaluated /\ alerts_ret.kind = "return"
    /\ \E i \in DOMAIN alerts_ret.value :
          /\ alerts_ret.value[i].title \in WindTitles
          /\ alerts_ret.value[i].level \in {"CRITICAL", "EMERGENCY"}

\* C23: if check_weather_alerts emits a CRITICAL or EMERGENCY wind alert for
\* a reading (wind speed > 30), calculate_flight_score of the same reading
\* does not return the tier SAFE and its score is below 80, whatever the
\* other fields.
C23_SevereWindNeverSafe ==
    (Present /\ Scored /\ SevereWindAlert) =>
        /\ score_ret.kind = "return"
        /\ score_ret.value[1] < 80
        /\ score_ret.value[2] # "SAFE"

\* C23 witness: wind speed 30.1 with every other factor at its best has
\* raised the CRITICAL wind alert and scored 79, CAUTION.
C23_Witness ==
    /\ Present /\ Scored /\ SevereWindAlert
    /\ weather_data.wind.speed = Float(301)
    /\ score_ret = Return(<<79, "CAUTION">>)

(***************************************************************************)
(* Properties of the command loop.                                         *)
(***************************************************************************)
\* the 'weather' queries up to position n of the log that fetched a reading,
\* recorded one after the other as main.py:69-78 records a query
RECURSIVE RecordedQueries(_)
RecordedQueries(n) ==
    IF n = 0
    THEN <<>>
    ELSE IF log[n].fn = "get_current_weather" /\ log[n].ret.value # None
         THEN RecordQuery(RecordedQueries(n - 1),
                          HistoryEntry(log[n].ret.value))
         ELSE RecordedQueries(n - 1)

\* C21 (as claimed): after any sequence of commands, history holds at most
\* 10 entries, and they are the most recent 'weather' queries that fetched a
\* reading, in the order they were made, the oldest dropped when an append
\* would make it 11; the other commands leave history unchanged.
C21_HistoryIsRecentQueries ==
    pc \in {"prompt", "exited"} =>
        /\ Len(history) <= HistoryLimit
        /\ history = RecordedQueries(Len(log))

\* the positions of the 'alerts' commands in the log
AlertsCommands == {n \in DOMAIN log : log[n].fn = "show_active_alerts"}

\* C22: in the command loop the active alerts of WeatherAssistant.alerts are
\* empty in every reachable state, no command calls check_weather_alerts,
\* and every 'alerts' command reports that there are no active weather
\* alerts, whatever readings were fetched before it.
C22_NoActiveAlerts ==
    /\ active_alerts = <<>>
    /\ Checks = {}
    /\ \A n \in AlertsCommands :
          log[n].ret = Return("No active weather alerts")

\* an 'alerts' command after a 'weather' command that fetched a reading for
\* which check_weather_alerts would have returned alerts
C22_Witness ==
    \E f \in Fetches, n \in AlertsCommands :
        /\ f < n
        /\ log[f].ret.value # None
        /\ AlertList(log[f].ret.value, now) # <<>>
        /\ log[n].ret = Return("No active weather alerts")

====
